---- MODULE Spec2Model ----
(***************************************************************************)
(* drf-serializer-prefetch: the relation planner (get_prefetch and its     *)
(* helpers, serializer_prefetch/base.py and utils.py) and the two entry    *)
(* points PrefetchingListSerializer.to_representation and                  *)
(* PrefetchingSerializerMixin.to_representation.                           *)
(*                                                                         *)
(* Representation.  A Python string holding a lookup is the sequence of    *)
(* its "__"-separated segments: "toppings__origin" is                      *)
(* <<"toppings","origin">>, the empty string "" is <<"">> and None is the  *)
(* empty sequence.  An entry of a plan is a record: a plain string has     *)
(* isPrefetch = FALSE and through = to = the string; a django Prefetch     *)
(* object has isPrefetch = TRUE with its prefetch_through, prefetch_to and *)
(* queryset.  A serializer tree is a function from serializer ids to       *)
(* serializer records.  Every satellite link carries the key               *)
(* "relation_and_field" (AdditionalSerializersTypedDict, typing.py); the   *)
(* key "serializer" may be missing.                                        *)
(***************************************************************************)
EXTENDS Integers, Sequences, FiniteSets, TLC

VARIABLES
    tree,       \* the serializer tree of the root serializer
    pc,         \* position of the running to_representation call
    entry,      \* "list": PrefetchingListSerializer, "single": the mixin
    auto_prefetch,  \* self._auto_prefetch of the serializer called
    has_parent,     \* self.parent is not None
    obj,        \* the object the caller passed
    work,       \* the local variable `instance`
    plan,       \* what get_prefetch returned to the running call
    todo,       \* the store operations the running call has still to issue
    marked,     \* the caller's objects carrying _serializer_prefetch_done
    cache,      \* the records with a non-empty _prefetched_objects_cache
    other_prefetching_methods,  \* self._other_prefetching_methods, per entry
    log,        \* what the running pass has done so far
    gate,       \* what the latest to_representation call found on entry
    raised,     \* the exception that left the pass
    rendered,   \* the <<entry, object>> pairs an earlier pass has rendered
    calls       \* number of passes started

vars == <<tree, pc, entry, auto_prefetch, has_parent, obj, work, plan, todo,
          marked, cache, other_prefetching_methods, log, gate, raised,
          rendered, calls>>

(***************************************************************************)
(* Relation paths                                                          *)
(***************************************************************************)
None == <<>>

EmptyStr == <<"">>

NoQuerySet == "none"

Plain(p) == [isPrefetch |-> FALSE, through |-> p, to |-> p, qs |-> NoQuerySet]

NoRelation == Plain(None)

\* django.db.models.Prefetch(lookup, queryset, to_attr); to_attr = "" when
\* it is not given.
Prefetch(lookup, queryset, to_attr) ==
    [isPrefetch |-> TRUE,
     through |-> lookup,
     to |-> IF to_attr # "" THEN SubSeq(lookup, 1, Len(lookup) - 1) \o <<to_attr>>
                            ELSE lookup,
     qs |-> queryset]

\* Python truth value of a current_relation: None and "" are false, a
\* non-empty string and any Prefetch object are true.
Truthy(rel) == rel.isPrefetch \/ (rel.to # None /\ rel.to # EmptyStr)

\* (a plain item joined to the prefetch_through of the current relation)
join_prefetch_through(current_relation, item) ==
    IF ~item.isPrefetch
    THEN Plain(current_relation.through \o item.to)
    ELSE [isPrefetch |-> TRUE,
          through |-> current_relation.through \o item.through,
          to |-> current_relation.to \o item.to,
          qs |-> item.qs]

join_prefetch(current_relation, item) ==
    IF ~item.isPrefetch
    THEN Plain(current_relation.to \o item.to)
    ELSE [isPrefetch |-> TRUE,
          through |-> current_relation.through \o item.through,
          to |-> current_relation.to \o item.to,
          qs |-> item.qs]

build_computed_related(related_attr, current_relation) ==
    [i \in DOMAIN related_attr |-> join_prefetch(current_relation, related_attr[i])]

get_custom_related(related_attr, current_relation) ==
    IF Truthy(current_relation)
    THEN build_computed_related(related_attr, current_relation)
    ELSE related_attr

(***************************************************************************)
(* The store schema of tests/models.py: the names Model._meta.get_field    *)
(* resolves to a Field or a ForeignObjectRel.                              *)
(***************************************************************************)
NoModel == "None"

ModelFields ==
    [Pizza |-> {"id", "label", "provenance", "extra_data", "toppings"},
     Topping |-> {"id", "pizza", "label", "origin"},
     Country |-> {"id", "label", "continent", "pizza", "toppings"},
     Continent |-> {"id", "label", "country"}]

is_model_field_lenient(model, source) == TRUE

is_model_field(model, source) ==
    /\ Len(source.through) = 1
    /\ source.through[1] \in ModelFields[model]

get_model_from_serializer(serializer) == serializer.model

(***************************************************************************)
(* OverrideResolver: the declared lists of a serializer                    *)
(***************************************************************************)
\* hasattr(serializer, name), for the four accessors and the four attributes
HasAttr(serializer, name) == name \in serializer.attrs

get_select_related_data_static_first(serializer) ==
    IF HasAttr(serializer, "select_related") THEN serializer.select_related
    ELSE IF HasAttr(serializer, "get_select_related")
    THEN serializer.get_select_related ELSE <<>>

get_select_related_data(serializer) ==
    IF HasAttr(serializer, "get_select_related") THEN serializer.get_select_related
    ELSE IF HasAttr(serializer, "select_related") THEN serializer.select_related
    ELSE <<>>

get_prefetch_related_data(serializer) ==
    IF HasAttr(serializer, "get_prefetch_related") THEN serializer.get_prefetch_related
    ELSE IF HasAttr(serializer, "prefetch_related") THEN serializer.prefetch_related
    ELSE <<>>

get_additional_serializers_data(serializer) ==
    IF HasAttr(serializer, "get_additional_serializers")
    THEN serializer.get_additional_serializers
    ELSE IF HasAttr(serializer, "additional_serializers")
    THEN serializer.additional_serializers
    ELSE <<>>

get_force_prefetch_data_none(serializer) == <<>>

get_force_prefetch_data(serializer) ==
    IF HasAttr(serializer, "get_force_prefetch") THEN serializer.get_force_prefetch
    ELSE IF HasAttr(serializer, "force_prefetch") THEN serializer.force_prefetch
    ELSE <<>>

InSeq(x, s) == \E i \in DOMAIN s : s[i] = x

Range(s) == {s[i] : i \in DOMAIN s}

IsForcedNever(item, force_prefetch) == FALSE

\* Line 169: select in force_prefetch
IsForced(item, force_prefetch) == ~item.isPrefetch /\ InSeq(item.to, force_prefetch)

get_custom_relations(serializer, current_relation) ==
    LET force_prefetch == get_force_prefetch_data(serializer)
        temp_select_related_attr == get_select_related_data(serializer)
        select_related_attr ==
            SelectSeq(temp_select_related_attr, LAMBDA s : ~IsForced(s, force_prefetch))
        prefetch_related_attr ==
            get_prefetch_related_data(serializer)
              \o SelectSeq(temp_select_related_attr, LAMBDA s : IsForced(s, force_prefetch))
    IN [sel |-> get_custom_related(select_related_attr, current_relation),
        pre |-> get_custom_related(prefetch_related_attr, current_relation)]

\* The loop of lines 148-153: simple_prefetch_to is computed once, before
\* the loop, from the entries the list held on entry.
RECURSIVE AppendNew(_, _, _, _)
AppendNew(prefetch_items, simple_prefetch_to, values, i) ==
    IF i > Len(values) THEN prefetch_items
    ELSE AppendNew(IF values[i].to \in simple_prefetch_to
                     THEN prefetch_items
                     ELSE Append(prefetch_items, values[i]),
                   simple_prefetch_to, values, i + 1)

extend_relation_items_front(select_items, prefetch_items, return_values) ==
    [sel |-> return_values.sel \o select_items,
     pre |-> AppendNew(<<>>, {prefetch_items[i].to : i \in DOMAIN prefetch_items},
                       return_values.pre, 1) \o prefetch_items]

extend_relation_items(select_items, prefetch_items, return_values) ==
    [sel |-> select_items \o return_values.sel,
     pre |-> AppendNew(prefetch_items,
                       {prefetch_items[i].to : i \in DOMAIN prefetch_items},
                       return_values.pre, 1)]

\* The Prefetch objects with a to_attr declared at the serializer, in its
\* prefetch_related and in its additional_serializers.
get_all_prefetch_with_to_attr_declared_only(serializer) ==
    LET pr == get_prefetch_related_data(serializer)
    IN {pr[i] : i \in {j \in DOMAIN pr : pr[j].isPrefetch /\ pr[j].to # pr[j].through}}

get_all_prefetch_with_to_attr(serializer) ==
    LET pr == get_prefetch_related_data(serializer)
        ad == get_additional_serializers_data(serializer)
    IN {pr[i] : i \in {j \in DOMAIN pr : pr[j].isPrefetch /\ pr[j].to # pr[j].through}}
       \cup {ad[i].relation_and_field :
               i \in {j \in DOMAIN ad : /\ ad[j].relation_and_field.isPrefetch
                                        /\ ad[j].relation_and_field.to
                                             # ad[j].relation_and_field.through}}

\* many_init hands prefetch_source to the child only: the ListSerializer
\* that stands for a many=True field has _prefetch_source = None.
field_prefetch_source(field) == IF field.many THEN None ELSE field.prefetch_source

(***************************************************************************)
(* TreeWalker.  A walk returns the two lists, the hooks it appended to     *)
(* _other_prefetching_methods, the error it raised (kind "none" when it    *)
(* returned), and a history of the serializers and fields it reached.      *)
(***************************************************************************)
NoError == [kind |-> "none", msg |-> "", source |-> None, field |-> None,
            serializer |-> ""]

MissingSerializerAsKeyError ==
    [kind |-> "KeyError", msg |-> "serializer", source |-> None, field |-> None,
     serializer |-> ""]

MissingSerializer ==
    [kind |-> "ValueError", msg |-> "missing the key serializer",
     source |-> None, field |-> None, serializer |-> ""]

BadPrefetchSource(source, field, serializer) ==
    [kind |-> "ValueError", msg |-> "prefetch_source is not a valid value",
     source |-> source, field |-> field, serializer |-> serializer]

Empty == [sel |-> <<>>, pre |-> <<>>, hooks |-> <<>>, visits |-> <<>>, err |-> NoError]

NodeVisit(ser, cur, sp) ==
    [kind |-> "node", node |-> ser, cur |-> cur, sp |-> sp, index |-> 0]

FieldVisit(ser, cur, sp, i) ==
    [kind |-> "field", node |-> ser, cur |-> cur, sp |-> sp, index |-> i]

RECURSIVE get_prefetch(_, _, _, _)
RECURSIVE AdditionalLoop(_, _, _, _, _)
RECURSIVE FieldLoop(_, _, _, _, _, _)

\* Lines 192-222: one iteration per satellite link, from link i on.
AdditionalLoop(t, ser, current_relation, i, acc) ==
    LET links == get_additional_serializers_data(t[ser])
    IN IF i > Len(links) THEN acc
       ELSE
         LET link == links[i]
             custom_current_relation ==
                 IF Truthy(current_relation)
                 THEN join_prefetch(current_relation, link.relation_and_field)
                 ELSE link.relation_and_field
             pre1 == IF Truthy(custom_current_relation)
                     THEN Append(acc.pre, custom_current_relation)
                     ELSE acc.pre
         IN IF ~link.has_serializer
            THEN [acc EXCEPT !.pre = pre1, !.err = MissingSerializer]
            ELSE
              LET sub == get_prefetch(t, link.serializer, custom_current_relation, TRUE)
                  acc1 == [sel |-> acc.sel \o sub.sel,
                           pre |-> pre1 \o sub.pre,
                           hooks |-> acc.hooks \o sub.hooks,
                           visits |-> acc.visits \o sub.visits,
                           err |-> sub.err]
              IN IF sub.err.kind # "none" THEN acc1
                 ELSE AdditionalLoop(t, ser, current_relation, i + 1, acc1)

get_additional_serializers_relations(t, ser, current_relation) ==
    AdditionalLoop(t, ser, current_relation, 1, Empty)

\* Lines 268 and 277-281.
future_should_prefetch_singular(should_prefetch, field, is_prefetch_object) ==
    should_prefetch \/ is_prefetch_object

future_should_prefetch(should_prefetch, field, is_prefetch_object) ==
    should_prefetch \/ field.many \/ is_prefetch_object

\* Lines 317-324: the nested serializer (the child of a ListSerializer) has a
\* Meta with a model.
has_meta_model_any(serializer) == TRUE

has_meta_model(serializer) == serializer.model # NoModel

IsPlannedFieldAlways(field) == TRUE

\* _get_fields: the nested serializer fields that are not write-only.
IsPlannedField(field) == ~field.write_only

\* Lines 267-327: one iteration per field, from field i on.
FieldLoop(t, ser, current_relation, should_prefetch, i, acc) ==
    LET serializer == t[ser]
        fields == serializer.fields
    IN IF i > Len(fields) THEN acc
       ELSE IF ~IsPlannedField(fields[i])
       THEN FieldLoop(t, ser, current_relation, should_prefetch, i + 1, acc)
       ELSE
         LET field == fields[i]
             force_prefetch == get_force_prefetch_data(serializer)
             overridden == field_prefetch_source(field) # None
                             /\ field_prefetch_source(field) # EmptyStr
             source == IF overridden THEN field_prefetch_source(field) ELSE field.source
             is_prefetch_object ==
                 \E p \in get_all_prefetch_with_to_attr(serializer) : p.to = source
             future ==
                 future_should_prefetch(should_prefetch, field, is_prefetch_object)
             model == get_model_from_serializer(serializer)
             seen == Append(acc.visits, FieldVisit(ser, current_relation, should_prefetch, i))
         IN IF ~is_prefetch_object /\ model # NoModel
                 /\ ~is_model_field(model, Plain(source))
            THEN IF overridden
                 THEN [acc EXCEPT !.visits = seen,
                                  !.err = BadPrefetchSource(source, field.source, ser)]
                 ELSE FieldLoop(t, ser, current_relation, should_prefetch, i + 1,
                                [acc EXCEPT !.visits = seen])
            ELSE
              LET to_prefetch == InSeq(source, force_prefetch) \/ future
                  qualified == IF Truthy(current_relation)
                               THEN join_prefetch(current_relation, Plain(source))
                               ELSE Plain(source)
                  sub == get_prefetch(t, field.serializer, qualified, future)
                  walked == [acc EXCEPT !.hooks = acc.hooks \o sub.hooks,
                                        !.visits = seen \o sub.visits,
                                        !.err = sub.err]
              IN IF sub.err.kind # "none" THEN walked
                 ELSE IF ~has_meta_model(t[field.serializer])
                 THEN FieldLoop(t, ser, current_relation, should_prefetch, i + 1, walked)
                 ELSE FieldLoop(t, ser, current_relation, should_prefetch, i + 1,
                        [walked EXCEPT
                           !.sel = IF to_prefetch THEN acc.sel \o sub.sel
                                   ELSE Append(acc.sel, qualified) \o sub.sel,
                           !.pre = IF to_prefetch THEN Append(acc.pre, qualified) \o sub.pre
                                   ELSE acc.pre \o sub.pre])

get_serializer_field_relations(t, ser, current_relation, should_prefetch) ==
    FieldLoop(t, ser, current_relation, should_prefetch, 1, Empty)

\* Lines 103-134.  ser is the serializer after the unwrapping of line 110.
get_prefetch(t, ser, current_relation, should_prefetch) ==
    LET serializer == t[ser]
        here == <<NodeVisit(ser, current_relation, should_prefetch)>>
        custom == get_custom_relations(serializer, current_relation)
        additional == get_additional_serializers_relations(t, ser, current_relation)
    IN IF additional.err.kind # "none"
       THEN [Empty EXCEPT !.hooks = additional.hooks,
                          !.visits = here \o additional.visits,
                          !.err = additional.err]
       ELSE
         LET first == extend_relation_items(custom.sel, custom.pre, additional)
             nested == get_serializer_field_relations(t, ser, current_relation,
                                                      should_prefetch)
         IN IF nested.err.kind # "none"
            THEN [Empty EXCEPT !.hooks = additional.hooks \o nested.hooks,
                               !.visits = here \o additional.visits \o nested.visits,
                               !.err = nested.err]
            ELSE
              LET second == extend_relation_items(first.sel, first.pre, nested)
              IN [sel |-> IF should_prefetch THEN <<>> ELSE second.sel,
                  pre |-> IF should_prefetch THEN second.sel \o second.pre
                                             ELSE second.pre,
                  hooks |-> additional.hooks \o nested.hooks
                              \o (IF serializer.has_other THEN <<ser>> ELSE <<>>),
                  visits |-> here \o additional.visits \o nested.visits,
                  err |-> NoError]

(***************************************************************************)
(* Serializer trees.  The serializers are those of tests/serializers.py    *)
(* and of the test cases, over the models of tests/models.py.              *)
(***************************************************************************)
\* A serializer class that declares its relations with static attributes: an
\* attribute it does not declare is not there for hasattr, and it has none
\* of the get_* accessors.
Serializer(model, select_related, prefetch_related, force_prefetch, additional_serializers, fields, has_other) ==
    [model |-> model, select_related |-> select_related,
     prefetch_related |-> prefetch_related, force_prefetch |-> force_prefetch,
     additional_serializers |-> additional_serializers, fields |-> fields,
     has_other |-> has_other,
     get_select_related |-> <<>>, get_prefetch_related |-> <<>>,
     get_force_prefetch |-> <<>>, get_additional_serializers |-> <<>>,
     attrs |-> (IF select_related # <<>> THEN {"select_related"} ELSE {})
                 \cup (IF prefetch_related # <<>> THEN {"prefetch_related"} ELSE {})
                 \cup (IF force_prefetch # <<>> THEN {"force_prefetch"} ELSE {})
                 \cup (IF additional_serializers # <<>>
                       THEN {"additional_serializers"} ELSE {})]

Field(source, prefetch_source, many, write_only, serializer) ==
    [source |-> source, prefetch_source |-> prefetch_source, many |-> many,
     write_only |-> write_only, serializer |-> serializer]

Link(relation_and_field, serializer) ==
    [relation_and_field |-> relation_and_field, has_serializer |-> TRUE,
     serializer |-> serializer]

LinkWithoutSerializer(relation_and_field) ==
    [relation_and_field |-> relation_and_field, has_serializer |-> FALSE,
     serializer |-> ""]

S(name) == Plain(<<name>>)

Root == "PizzaSerializer"

\* Leaf serializers: Meta.model and scalar fields only.
Leaf(model) == Serializer(model, <<>>, <<>>, <<>>, <<>>, <<>>, TRUE)

\* CountrySerializer as declared by the tests: plain, with
\* select_related = ("continent",), with a nested ContinentSerializer or the
\* toppings made in the country, and each of these with
\* force_prefetch = ("continent",).
CountryVariants ==
    {Serializer("Country", sel, <<>>, force, <<>>, fields, TRUE) :
        sel \in {<<>>, <<S("continent")>>},
        force \in {<<>>, <<<<"continent">>>>},
        fields \in {<<>>,
                    <<Field(<<"continent">>, None, FALSE, FALSE, "ContinentSerializer")>>,
                    <<Field(<<"toppings">>, None, TRUE, FALSE, "MadeWithSerializer")>>}}

\* ToppingSerializer: plain, with a nested origin, with the aliased
\* Prefetch of test_prefetch_object_is_passed_with_depth, with a satellite
\* link that lacks its serializer.
ToppingVariants ==
    {Leaf("Topping"),
     Serializer("Topping", <<>>, <<>>, <<>>, <<>>,
                <<Field(<<"origin">>, None, FALSE, FALSE, "OriginSerializer")>>, TRUE),
     Serializer("Topping", <<S("origin")>>, <<>>, <<>>, <<>>, <<>>, TRUE),
     Serializer("Topping", <<>>,
                <<Prefetch(<<"origin">>, "europe", "origin_eu")>>, <<>>, <<>>,
                <<Field(<<"origin_eu">>, None, FALSE, FALSE, "OriginSerializer")>>, TRUE),
     Serializer("Topping", <<>>, <<>>, <<>>, <<LinkWithoutSerializer(S("origin"))>>,
                <<>>, TRUE),
     Serializer("Topping", <<>>, <<>>, <<>>, <<>>,
                <<Field(<<"origin">>, None, FALSE, TRUE, "OriginSerializer")>>, TRUE)}

\* ExtraDataSerializer: a serializers.Serializer without Meta, bare or with
\* declared relations and a model-backed nested field of its own.
ExtraVariants ==
    {Serializer(NoModel, <<>>, <<>>, <<>>, <<>>, <<>>, FALSE),
     Serializer(NoModel, <<S("maker")>>, <<S("tags")>>, <<>>, <<>>,
                <<Field(<<"country">>, None, FALSE, FALSE, "OriginSerializer")>>, FALSE)}

RootSelect == {<<>>, <<S("provenance")>>}

RootPrefetch ==
    {<<>>,
     <<S("toppings")>>,
     <<S("provenance")>>,
     <<Prefetch(<<"toppings">>, "cheese", "")>>,
     <<Prefetch(<<"toppings">>, "cheese", "cheese_toppings")>>,
     <<Prefetch(<<"provenance">>, "europe", "provenance_eu")>>}

RootForce == {<<>>, <<<<"provenance">>>>}

RootAdditional ==
    {<<>>,
     <<Link(S("toppings"), "ToppingSerializer")>>,
     <<Link(Prefetch(<<"toppings">>, "cheese", ""), "ToppingSerializer")>>,
     <<Link(S("provenance"), "CountrySerializer")>>,
     <<Link(Prefetch(<<"toppings">>, "cheese", "cheese_toppings"), "ToppingSerializer")>>,
     <<LinkWithoutSerializer(S("toppings"))>>}

Toppings == Field(<<"toppings">>, None, TRUE, FALSE, "ToppingSerializer")

Provenance == Field(<<"provenance">>, None, FALSE, FALSE, "CountrySerializer")

RootFields ==
    {<<>>,
     <<Toppings, Provenance>>,
     <<Provenance>>,
     <<Field(<<"provenance_">>, None, FALSE, FALSE, "CountrySerializer")>>,
     <<Field(<<"provenance_">>, <<"provenance">>, FALSE, FALSE, "CountrySerializer")>>,
     <<Toppings, Field(<<"provenance_">>, <<"wrong_source">>, FALSE, FALSE,
                       "CountrySerializer")>>,
     <<Field(<<"provenance_">>, <<"provenance_eu">>, FALSE, FALSE, "CountrySerializer")>>,
     <<Field(<<"extra_data">>, None, FALSE, FALSE, "ExtraDataSerializer"), Provenance>>,
     <<Field(<<"cheese_toppings">>, None, TRUE, FALSE, "ToppingSerializer")>>,
     <<Field(<<"toppings">>, None, TRUE, TRUE, "ToppingSerializer"), Provenance>>,
     <<Field(<<"provenance_">>, <<"wrong_source">>, FALSE, TRUE, "CountrySerializer"),
       Toppings>>,
     <<Field(<<"toppings_">>, <<"toppings">>, TRUE, FALSE, "ToppingSerializer")>>}

MakeTree(root, topping, country, extra) ==
    [PizzaSerializer |-> root,
     ToppingSerializer |-> topping,
     CountrySerializer |-> country,
     OriginSerializer |-> country,
     ContinentSerializer |-> Leaf("Continent"),
     MadeWithSerializer |->
         Serializer("Topping", <<S("pizza")>>, <<>>, <<>>, <<>>, <<>>, TRUE),
     ExtraDataSerializer |-> extra]

\* The last one is the serializer of test_non_model_serializer, a plain
\* Serializer without Meta, with a singular nested field next to the plural
\* one.
RootVariants ==
    {Serializer("Pizza", sel, pre, force, additional, fields, TRUE) :
        sel \in RootSelect, pre \in RootPrefetch, force \in RootForce,
        additional \in RootAdditional, fields \in RootFields}
      \cup {Serializer(NoModel, <<>>, <<>>, <<>>, <<>>, <<Toppings, Provenance>>, TRUE)}

PlanTrees ==
    {MakeTree(root, topping, country, extra) :
        root \in RootVariants, topping \in ToppingVariants,
        country \in CountryVariants, extra \in ExtraVariants}

\* The trees of the passes: the tree of test_default_behaviour_with_depth, a
\* tree without relations, one whose ToppingSerializer is reached through a field
\* and through a satellite link, the two misconfigured trees of
\* test_errors.py and test_property_properly_handled, and the tree of
\* test_related_fields, which declares the relations of its two fields.
PassRoots ==
    {Serializer("Pizza", <<>>, <<>>, <<>>, <<>>, <<Toppings, Provenance>>, TRUE),
     Serializer("Pizza", <<>>, <<>>, <<>>, <<>>, <<>>, TRUE),
     Serializer("Pizza", <<>>, <<>>, <<>>,
                <<Link(S("toppings"), "ToppingSerializer")>>,
                <<Toppings, Provenance>>, TRUE),
     Serializer("Pizza", <<>>, <<>>, <<>>,
                <<LinkWithoutSerializer(S("toppings"))>>,
                <<Toppings, Provenance>>, TRUE),
     Serializer("Pizza", <<>>, <<>>, <<>>, <<>>,
                <<Toppings, Field(<<"provenance_">>, <<"wrong_source">>, FALSE, FALSE,
                                  "CountrySerializer")>>, TRUE),
     Serializer("Pizza", <<S("provenance")>>, <<S("toppings")>>, <<>>, <<>>,
                <<Toppings, Provenance>>, TRUE)}

PassTrees ==
    {MakeTree(root,
              Serializer("Topping", <<>>, <<>>, <<>>, <<>>,
                         <<Field(<<"origin">>, None, FALSE, FALSE, "OriginSerializer")>>,
                         TRUE),
              Leaf("Country"),
              Serializer(NoModel, <<>>, <<>>, <<>>, <<>>, <<>>, FALSE)) :
        root \in PassRoots}
    \cup
    {MakeTree(Serializer("Pizza", <<>>, <<>>, <<>>, <<>>, <<Toppings, Provenance>>, TRUE),
              Serializer("Topping", <<>>, <<>>, <<>>,
                         <<LinkWithoutSerializer(S("origin"))>>, <<>>, TRUE),
              Leaf("Country"),
              Serializer(NoModel, <<>>, <<>>, <<>>, <<>>, <<>>, FALSE))}

(***************************************************************************)
(* The objects a caller hands to to_representation                         *)
(***************************************************************************)
MaxCalls == 2

Objs == {"queryset", "list", "tuple", "model", "cached_model", "dict"}

Kind(o) ==
    CASE o = "queryset" -> "QuerySet"
      [] o = "list" -> "list"
      [] o = "tuple" -> "tuple"
      [] o = "dict" -> "dict"
      [] OTHER -> "Model"

IterableAlways(kind) == TRUE

\* isinstance(instance, Iterable), for an instance that is no QuerySet
Iterable(kind) == kind \in {"list", "tuple", "dict", "List", "Dict"}

\* The objects that take a new attribute: builtin list, tuple and dict
\* instances have no __dict__.
CanSetAttr(kind) == kind \in {"QuerySet", "Model", "List", "Dict"}

StoreErrors == {"AttributeError", "DatabaseError"}

StoreError(kind) ==
    [kind |-> kind, msg |-> "raised by the store", source |-> None, field |-> None,
     serializer |-> ""]

NotIterable ==
    [kind |-> "ValueError", msg |-> "instance is not an Iterable", source |-> None,
     field |-> None, serializer |-> ""]

ForgotMany ==
    [kind |-> "ValueError", msg |-> "Got an AttributeError", source |-> None,
     field |-> None, serializer |-> ""]

CannotSetAttr ==
    [kind |-> "AttributeError", msg |-> "object has no attribute", source |-> None,
     field |-> None, serializer |-> ""]

Ev(op, items, arg) == [op |-> op, items |-> items, arg |-> arg]

StoreOpNames == {"select_related", "prefetch_related", "prefetch_related_objects"}

\* (the batch call before the eager call, and skipped when the list is empty)
StoreOpsBatchFirst(e, kind, p) ==
    IF e = "list"
    THEN IF kind = "QuerySet"
         THEN (IF p.pre # <<>> THEN <<Ev("prefetch_related", p.pre, "")>> ELSE <<>>)
                \o (IF p.sel # <<>> THEN <<Ev("select_related", p.sel, "")>> ELSE <<>>)
                \o <<Ev("queryset_after_prefetch", <<>>, "")>>
         ELSE [i \in 1..Len(p.sel \o p.pre) |->
                 Ev("prefetch_related_objects", <<(p.sel \o p.pre)[i]>>, "")]
    ELSE IF kind = "Model"
         THEN <<Ev("prefetch_related_objects", p.sel \o p.pre, "")>>
         ELSE <<>>

\* The store calls of lines 358-374 and 405-407, in the order of the code.
StoreOps(e, kind, p) ==
    IF e = "list"
    THEN IF kind = "QuerySet"
         THEN (IF p.sel # <<>> THEN <<Ev("select_related", p.sel, "")>> ELSE <<>>)
                \o <<Ev("prefetch_related", p.pre, ""),
                     Ev("queryset_after_prefetch", <<>>, "")>>
         ELSE [i \in 1..Len(p.sel \o p.pre) |->
                 Ev("prefetch_related_objects", <<(p.sel \o p.pre)[i]>>, "")]
    ELSE IF kind = "Model"
         THEN <<Ev("prefetch_related_objects", p.sel \o p.pre, "")>>
         ELSE <<>>

\* (the marker read off the object the caller passed, not off the instance
\* the pass holds)
prefetch_done_of_passed_object == work.own /\ obj \in marked

\* getattr(instance, "_serializer_prefetch_done", False)
prefetch_done == IF work.own THEN obj \in marked ELSE work.done

\* bool(getattr(instance, "_prefetched_objects_cache", None))
prefetched_objects_cache == work.kind = "Model" /\ work.own /\ obj \in cache

\* Line 352, negated: the list entry point plans.
list_plans(done, parent, auto) == ~(done \/ parent \/ ~auto)

\* Lines 397-402: the single-record entry point plans.
single_plans_despite_cache(done, parent, auto, cached) == ~done /\ auto /\ ~parent

single_plans(done, parent, auto, cached) == ~done /\ auto /\ ~parent /\ ~cached

NoGate == [seen |-> FALSE, open |-> FALSE, done |-> FALSE, cached |-> FALSE,
           at |-> 0, marked |-> {}, methods |-> <<>>]

Init ==
    /\ tree \in PassTrees
    /\ pc = "idle"
    /\ entry = "list"
    /\ auto_prefetch = TRUE
    /\ has_parent = FALSE
    /\ obj = "queryset"
    /\ work = [kind |-> "QuerySet", own |-> TRUE, done |-> FALSE]
    /\ plan = Empty
    /\ todo = <<>>
    /\ marked = {}
    /\ cache = {"cached_model"}
    /\ other_prefetching_methods = [e \in {"list", "single"} |-> <<>>]
    /\ log = <<>>
    /\ gate = NoGate
    /\ raised = NoError
    /\ rendered = {}
    /\ calls = 0

\* A caller calls to_representation of a serializer on one of its objects.
Call(e, o, auto, parent) ==
    /\ pc = "idle"
    /\ calls < MaxCalls
    /\ pc' = "enter"
    /\ entry' = e
    /\ obj' = o
    /\ auto_prefetch' = auto
    /\ has_parent' = parent
    /\ work' = [kind |-> Kind(o), own |-> TRUE, done |-> FALSE]
    /\ plan' = Empty
    /\ todo' = <<>>
    /\ log' = <<>>
    /\ gate' = NoGate
    /\ raised' = NoError
    /\ calls' = calls + 1
    /\ UNCHANGED <<tree, marked, cache, other_prefetching_methods, rendered>>

\* Lines 351-356 and 396-403: the gate, and get_prefetch when it is open.
Enter ==
    /\ pc = "enter"
    /\ LET cached == prefetched_objects_cache
           open == IF entry = "list"
                   THEN list_plans(prefetch_done, has_parent, auto_prefetch)
                   ELSE single_plans(prefetch_done, has_parent, auto_prefetch, cached)
           found == [seen |-> TRUE, open |-> open, done |-> prefetch_done,
                     cached |-> cached,
                     at |-> Len(log), marked |-> marked,
                     methods |-> other_prefetching_methods[entry]]
           p == get_prefetch(tree, Root, NoRelation, FALSE)
       IN /\ gate' = found
          /\ IF ~open
             THEN /\ pc' = "render"
                  /\ log' = Append(log, Ev("super.to_representation", <<>>, ""))
                  /\ UNCHANGED <<plan, todo, other_prefetching_methods, raised>>
             ELSE /\ plan' = p
                  /\ other_prefetching_methods' =
                        [other_prefetching_methods EXCEPT ![entry] = @ \o p.hooks]
                  /\ log' = Append(log, Ev("get_prefetch", <<>>, ""))
                  /\ IF p.err.kind # "none"
                     THEN /\ pc' = "raised"
                          /\ raised' = p.err
                          /\ todo' = <<>>
                     ELSE IF entry = "list" /\ work.kind # "QuerySet"
                               /\ ~Iterable(work.kind)
                     THEN /\ pc' = "raised"
                          /\ raised' = NotIterable
                          /\ todo' = <<>>
                     ELSE /\ pc' = "apply"
                          /\ todo' = StoreOps(entry, work.kind, p)
                          /\ UNCHANGED raised
    /\ UNCHANGED <<tree, entry, auto_prefetch, has_parent, obj, work, marked, cache,
                   rendered, calls>>

\* One store call of the plan returns.  select_related and prefetch_related
\* return a new QuerySet; prefetch_related_objects on a record may fill its
\* _prefetched_objects_cache.
StoreReturns(fills) ==
    /\ pc = "apply"
    /\ todo # <<>>
    /\ log' = Append(log, Head(todo))
    /\ todo' = Tail(todo)
    /\ work' = IF Head(todo).op \in {"select_related", "prefetch_related"}
               THEN [work EXCEPT !.own = FALSE, !.done = FALSE]
               ELSE work
    /\ cache' = IF fills /\ work.kind = "Model" /\ Head(todo).items # <<>>
                THEN cache \cup {obj} ELSE cache
    /\ UNCHANGED <<tree, pc, entry, auto_prefetch, has_parent, obj, plan, marked,
                   other_prefetching_methods, gate, raised, rendered, calls>>

\* (a store call raises and the pass goes on with the next one)
StoreRaisesAndGoesOn(kind) ==
    /\ pc = "apply"
    /\ todo # <<>>
    /\ Head(todo).op \in StoreOpNames
    /\ todo' = Tail(todo)
    /\ log' = Append(log, Ev("store_raises", Head(todo).items, kind))
    /\ UNCHANGED <<tree, pc, entry, auto_prefetch, has_parent, obj, work, plan,
                   marked, cache, other_prefetching_methods, gate, raised, rendered,
                   calls>>

\* One store call of the plan raises.  Lines 408-414 turn the
\* AttributeError of the single-record call into a ValueError.
StoreRaises(kind) ==
    /\ pc = "apply"
    /\ todo # <<>>
    /\ Head(todo).op \in StoreOpNames
    /\ pc' = "raised"
    /\ raised' = IF entry = "single" /\ kind = "AttributeError"
                 THEN ForgotMany ELSE StoreError(kind)
    /\ log' = Append(log, Ev("store_raises", Head(todo).items, kind))
    /\ UNCHANGED <<tree, entry, auto_prefetch, has_parent, obj, work, plan, todo,
                   marked, cache, other_prefetching_methods, gate, rendered, calls>>

\* Lines 376-379 and 416-418: wrap a list or a dict, then set the marker.
Mark ==
    /\ pc = "apply"
    /\ todo = <<>>
    /\ LET wrapped ==
             IF entry = "list" /\ work.kind = "list"
             THEN [kind |-> "List", own |-> FALSE, done |-> FALSE]
             ELSE IF entry = "single" /\ work.kind = "dict"
             THEN [kind |-> "Dict", own |-> FALSE, done |-> FALSE]
             ELSE work
       IN IF CanSetAttr(wrapped.kind)
          THEN /\ pc' = "hooks"
               /\ work' = IF wrapped.own THEN wrapped ELSE [wrapped EXCEPT !.done = TRUE]
               /\ marked' = IF wrapped.own THEN marked \cup {obj} ELSE marked
               /\ log' = Append(log, Ev("mark", <<>>, ""))
               /\ UNCHANGED raised
          ELSE /\ pc' = "raised"
               /\ raised' = CannotSetAttr
               /\ work' = wrapped
               /\ UNCHANGED <<marked, log>>
    /\ UNCHANGED <<tree, entry, auto_prefetch, has_parent, obj, plan, todo, cache,
                   other_prefetching_methods, gate, rendered, calls>>

\* Lines 99-101.
call_other_prefetching_methods ==
    /\ pc = "hooks"
    /\ pc' = "pre_render"
    /\ log' = log \o [i \in DOMAIN other_prefetching_methods[entry] |->
                        Ev("other_prefetching", <<>>, other_prefetching_methods[entry][i])]
    /\ UNCHANGED <<tree, entry, auto_prefetch, has_parent, obj, work, plan, todo,
                   marked, cache, other_prefetching_methods, gate, raised, rendered,
                   calls>>

\* Lines 383 and 422-425: call_to_representation calls to_representation
\* again; a single instance that is no record goes to super() directly.
call_to_representation ==
    /\ pc = "pre_render"
    /\ IF entry = "list" \/ work.kind = "Model"
       THEN /\ pc' = "enter"
            /\ log' = Append(log, Ev("call_to_representation", <<>>, ""))
       ELSE /\ pc' = "render"
            /\ log' = Append(log, Ev("super.to_representation", <<>>, ""))
    /\ UNCHANGED <<tree, entry, auto_prefetch, has_parent, obj, work, plan, todo,
                   marked, cache, other_prefetching_methods, gate, raised, rendered,
                   calls>>

\* What super().to_representation can walk: ListSerializer iterates the
\* instance, Serializer reads its fields off a record or a mapping.
Renderable(e, kind) ==
    IF e = "list" THEN kind = "QuerySet" \/ Iterable(kind)
    ELSE kind \in {"Model", "dict", "Dict"}

RenderError(e) ==
    [kind |-> IF e = "list" THEN "TypeError" ELSE "AttributeError",
     msg |-> "raised by super().to_representation", source |-> None, field |-> None,
     serializer |-> ""]

\* super().to_representation renders and the call returns.  A serializer
\* without a required field renders whatever it is handed.
Render ==
    /\ pc = "render"
    /\ entry = "list" => Renderable(entry, work.kind)
    /\ pc' = "idle"
    /\ log' = Append(log, Ev("render", <<>>, ""))
    /\ rendered' = IF auto_prefetch /\ ~has_parent
                   THEN rendered \cup {<<entry, obj>>} ELSE rendered
    /\ UNCHANGED <<tree, entry, auto_prefetch, has_parent, obj, work, plan, todo,
                   marked, cache, other_prefetching_methods, gate, raised, calls>>

\* super().to_representation raises on an instance it cannot walk.
RenderRaises ==
    /\ pc = "render"
    /\ ~Renderable(entry, work.kind)
    /\ pc' = "raised"
    /\ raised' = RenderError(entry)
    /\ UNCHANGED <<tree, entry, auto_prefetch, has_parent, obj, work, plan, todo,
                   marked, cache, other_prefetching_methods, log, gate, rendered,
                   calls>>

\* The exception reaches the caller.
Propagate ==
    /\ pc = "raised"
    /\ pc' = "idle"
    /\ UNCHANGED <<tree, entry, auto_prefetch, has_parent, obj, work, plan, todo,
                   marked, cache, other_prefetching_methods, log, gate, raised,
                   rendered, calls>>

Next ==
    \/ \E e \in {"list", "single"}, o \in Objs, auto \in BOOLEAN, parent \in BOOLEAN :
          Call(e, o, auto, parent)
    \/ Enter
    \/ \E fills \in BOOLEAN : StoreReturns(fills)
    \/ \E kind \in StoreErrors : StoreRaises(kind)
    \/ Mark
    \/ call_other_prefetching_methods
    \/ call_to_representation
    \/ Render
    \/ RenderRaises
    \/ Propagate

Spec == Init /\ [][Next]_vars

(***************************************************************************)
(* The planner on its own: get_prefetch applied to the root of a tree.     *)
(***************************************************************************)
InitPlan ==
    /\ tree \in PlanTrees
    /\ pc = "idle"
    /\ entry = "list"
    /\ auto_prefetch = TRUE
    /\ has_parent = FALSE
    /\ obj = "queryset"
    /\ work = [kind |-> "QuerySet", own |-> TRUE, done |-> FALSE]
    /\ plan = Empty
    /\ todo = <<>>
    /\ marked = {}
    /\ cache = {"cached_model"}
    /\ other_prefetching_methods = [e \in {"list", "single"} |-> <<>>]
    /\ log = <<>>
    /\ gate = NoGate
    /\ raised = NoError
    /\ rendered = {}
    /\ calls = 0

Plan ==
    /\ pc = "idle"
    /\ pc' = "planned"
    /\ plan' = get_prefetch(tree, Root, NoRelation, FALSE)
    /\ UNCHANGED <<tree, entry, auto_prefetch, has_parent, obj, work, todo, marked,
                   cache, other_prefetching_methods, log, gate, raised, rendered,
                   calls>>

NextPlan == Plan

SpecPlan == InitPlan /\ [][NextPlan]_vars

(***************************************************************************)
(* The planner on serializers that declare their relations by static       *)
(* attributes, by get_* accessors, or by both.                             *)
(***************************************************************************)
\* How a class declares one kind of relation: not at all, by the attribute,
\* by the accessor, or by both, the accessor returning other relations or
\* none.
Declarations(static, dynamic) ==
    {[attr |-> FALSE, static |-> <<>>, method |-> FALSE, dynamic |-> <<>>],
     [attr |-> TRUE, static |-> static, method |-> FALSE, dynamic |-> <<>>],
     [attr |-> FALSE, static |-> <<>>, method |-> TRUE, dynamic |-> dynamic],
     [attr |-> TRUE, static |-> static, method |-> TRUE, dynamic |-> dynamic],
     [attr |-> TRUE, static |-> static, method |-> TRUE, dynamic |-> <<>>]}

Declare(sel, pre, force, additional) ==
    [model |-> "Pizza", fields |-> <<Toppings, Provenance>>, has_other |-> TRUE,
     select_related |-> sel.static, get_select_related |-> sel.dynamic,
     prefetch_related |-> pre.static, get_prefetch_related |-> pre.dynamic,
     force_prefetch |-> force.static, get_force_prefetch |-> force.dynamic,
     additional_serializers |-> additional.static,
     get_additional_serializers |-> additional.dynamic,
     attrs |-> (IF sel.attr THEN {"select_related"} ELSE {})
                 \cup (IF sel.method THEN {"get_select_related"} ELSE {})
                 \cup (IF pre.attr THEN {"prefetch_related"} ELSE {})
                 \cup (IF pre.method THEN {"get_prefetch_related"} ELSE {})
                 \cup (IF force.attr THEN {"force_prefetch"} ELSE {})
                 \cup (IF force.method THEN {"get_force_prefetch"} ELSE {})
                 \cup (IF additional.attr THEN {"additional_serializers"} ELSE {})
                 \cup (IF additional.method THEN {"get_additional_serializers"} ELSE {})]

ResolveRoots ==
    {Declare(sel, pre, force, additional) :
        sel \in Declarations(<<S("provenance")>>, <<Plain(<<"provenance", "continent">>)>>),
        pre \in Declarations(<<S("toppings")>>, <<Prefetch(<<"toppings">>, "cheese", "")>>),
        force \in Declarations(<<<<"provenance">>>>, <<<<"provenance", "continent">>>>),
        additional \in Declarations(<<Link(S("toppings"), "ToppingSerializer")>>,
                                    <<Link(S("provenance"), "CountrySerializer")>>)}

ResolveTrees ==
    {MakeTree(root, Leaf("Topping"), Leaf("Country"),
              Serializer(NoModel, <<>>, <<>>, <<>>, <<>>, <<>>, FALSE)) :
        root \in ResolveRoots}

InitResolve ==
    /\ tree \in ResolveTrees
    /\ pc = "idle"
    /\ entry = "list"
    /\ auto_prefetch = TRUE
    /\ has_parent = FALSE
    /\ obj = "queryset"
    /\ work = [kind |-> "QuerySet", own |-> TRUE, done |-> FALSE]
    /\ plan = Empty
    /\ todo = <<>>
    /\ marked = {}
    /\ cache = {"cached_model"}
    /\ other_prefetching_methods = [e \in {"list", "single"} |-> <<>>]
    /\ log = <<>>
    /\ gate = NoGate
    /\ raised = NoError
    /\ rendered = {}
    /\ calls = 0

SpecResolve == InitResolve /\ [][NextPlan]_vars

(***************************************************************************)
(* Vocabulary of the properties                                            *)
(***************************************************************************)
Paths(items) == {items[i].to : i \in DOMAIN items}

Planned == pc = "planned" /\ plan.err.kind = "none"

PlanRaised == pc = "planned" /\ plan.err.kind # "none"

NodeVisits == {plan.visits[i] : i \in {j \in DOMAIN plan.visits : plan.visits[j].kind = "node"}}

FieldVisits == {plan.visits[i] : i \in {j \in DOMAIN plan.visits : plan.visits[j].kind = "field"}}

FieldOf(v) == tree[v.node].fields[v.index]

\* name qualified under the path the walk reached the serializer by
Qualified(cur, name) == IF Truthy(cur) THEN cur.to \o name ELSE name

\* the plan get_prefetch returns for the serializer of a visit
SubPlan(v) == get_prefetch(tree, v.node, v.cur, v.sp)

HasAlias(serializer, name) ==
    \E p \in Range(serializer.prefetch_related)
            \cup {serializer.additional_serializers[i].relation_and_field :
                    i \in DOMAIN serializer.additional_serializers} :
        p.isPrefetch /\ p.to # p.through /\ p.to = name

Navigable(serializer, name) ==
    serializer.model # NoModel =>
        (Len(name) = 1 /\ name[1] \in ModelFields[serializer.model])

\* the relation a field stands for: its _prefetch_source, else its source
RelationOf(field) ==
    IF field_prefetch_source(field) \notin {None, EmptyStr}
    THEN field_prefetch_source(field) ELSE field.source

\* a nested field the walk plans: read, navigable or aliased, and with a
\* nested serializer that has a Meta.model
Plannable(t, ser, field) ==
    /\ ~field.write_only
    /\ Navigable(t[ser], RelationOf(field)) \/ HasAlias(t[ser], RelationOf(field))
    /\ t[field.serializer].model # NoModel

IsPrefix(p, q) == Len(p) <= Len(q) /\ SubSeq(q, 1, Len(p)) = p

RemoveAt(seq, i) == SubSeq(seq, 1, i - 1) \o SubSeq(seq, i + 1, Len(seq))

(***************************************************************************)
(* C2.  The plan get_prefetch returns at the root has no relation path     *)
(* that is both in the eager list and in the batch list; a name declared   *)
(* in select_related and in prefetch_related of one serializer ends up in  *)
(* the batch list only.                                                    *)
(***************************************************************************)
C2_NoPathInBothLists ==
    Planned => Paths(plan.sel) \cap Paths(plan.pre) = {}

(***************************************************************************)
(* C3.  When the root serializer contributes a relation to the batch list  *)
(* once as a plain path and once as a Prefetch whose prefetch_to is that   *)
(* path, exactly one entry for it is in the returned batch list and it is  *)
(* the Prefetch, whichever came first.                                     *)
(***************************************************************************)
BatchContributions(t) ==
    Range(t[Root].prefetch_related)
      \cup {t[Root].additional_serializers[i].relation_and_field :
              i \in DOMAIN t[Root].additional_serializers}
      \cup {Plain(RelationOf(t[Root].fields[i])) :
              i \in {j \in DOMAIN t[Root].fields :
                       /\ t[Root].fields[j].many
                       /\ Plannable(t, Root, t[Root].fields[j])}}

C3_PrefetchObjectSurvives ==
    Planned =>
      \A a, b \in BatchContributions(tree) :
          (~a.isPrefetch /\ b.isPrefetch /\ b.to = a.to) =>
             LET hits == {i \in DOMAIN plan.pre : plan.pre[i].to = a.to}
             IN Cardinality(hits) = 1 /\ \A i \in hits : plan.pre[i].isPrefetch

(***************************************************************************)
(* C4.  Force-batch precedence: for every serializer the walk visits and   *)
(* every name of its force_prefetch that is also an eager candidate (in    *)
(* its select_related, or the relation of a planned singular nested        *)
(* field), the plan get_prefetch returns for that serializer has the       *)
(* qualified path in its batch list and not in its eager list.             *)
(***************************************************************************)
EagerCandidate(t, ser, name) ==
    \/ InSeq(Plain(name), t[ser].select_related)
    \/ \E i \in DOMAIN t[ser].fields :
          /\ ~t[ser].fields[i].many
          /\ RelationOf(t[ser].fields[i]) = name
          /\ Plannable(t, ser, t[ser].fields[i])

ForcedCandidates(v) ==
    {name \in Range(tree[v.node].force_prefetch) : EagerCandidate(tree, v.node, name)}

C4_ForceBatchPrecedence ==
    Planned =>
      \A v \in NodeVisits : \A name \in ForcedCandidates(v) :
          /\ Qualified(v.cur, name) \in Paths(SubPlan(v).pre)
          /\ Qualified(v.cur, name) \notin Paths(SubPlan(v).sel)

\* A serializer reached outside forced-batch mode forces a relation that its
\* select_related names and a nested field serializes, and its plan still
\* has eager paths.
C4_Witness ==
    /\ Planned
    /\ \E v \in NodeVisits :
          /\ ~v.sp
          /\ SubPlan(v).sel # <<>>
          /\ \E name \in ForcedCandidates(v) :
                /\ InSeq(Plain(name), tree[v.node].select_related)
                /\ \E i \in DOMAIN tree[v.node].fields :
                      RelationOf(tree[v.node].fields[i]) = name

(***************************************************************************)
(* C5.  Plural propagation: for every planned nested field with many=True, *)
(* at any depth, the plan of the enclosing serializer has the field's path *)
(* and every path its subtree contributes in the batch list, and has no    *)
(* eager path at or below the field's path.                                *)
(***************************************************************************)
PluralVisits ==
    {v \in FieldVisits : FieldOf(v).many /\ Plannable(tree, v.node, FieldOf(v))}

\* what the subtree of the field contributes when it is walked on its own
SubtreePaths(v) ==
    LET own == Plain(Qualified(v.cur, RelationOf(FieldOf(v))))
        sub == get_prefetch(tree, FieldOf(v).serializer, own, FALSE)
    IN {own.to} \cup Paths(sub.sel) \cup Paths(sub.pre)

C5_PluralPropagation ==
    Planned =>
      \A v \in PluralVisits :
          /\ SubtreePaths(v) \subseteq Paths(SubPlan(v).pre)
          /\ \A e \in Paths(SubPlan(v).sel) :
                ~IsPrefix(Qualified(v.cur, RelationOf(FieldOf(v))), e)

\* A many=True field below the root, reached outside forced-batch mode, whose
\* subtree declares select_related, next to eager paths of the enclosing plan;
\* and a many=True field whose subtree holds a singular nested field two
\* levels down.
C5_Witness ==
    /\ Planned
    /\ \E v \in PluralVisits :
          /\ v.node # Root
          /\ ~v.sp
          /\ tree[FieldOf(v).serializer].select_related # <<>>
          /\ plan.sel # <<>>
    /\ \E v \in PluralVisits : \E p \in SubtreePaths(v) :
          Len(p) >= Len(Qualified(v.cur, RelationOf(FieldOf(v)))) + 2

(***************************************************************************)
(* C6.  Schema gating: a nested field whose serializer has no Meta.model   *)
(* adds nothing to the plan of the enclosing serializer, neither its own   *)
(* path nor a path of its descendants: both lists are what they are        *)
(* without the field.                                                      *)
(***************************************************************************)
SchemalessVisits ==
    {v \in FieldVisits : tree[FieldOf(v).serializer].model = NoModel}

WithoutField(v) ==
    get_prefetch([tree EXCEPT ![v.node].fields = RemoveAt(@, v.index)],
                 v.node, v.cur, v.sp)

C6_SchemaGating ==
    Planned =>
      \A v \in SchemalessVisits :
          /\ SubPlan(v).sel = WithoutField(v).sel
          /\ SubPlan(v).pre = WithoutField(v).pre

\* The serializer without Meta declares relations and has a model-backed
\* nested field, the walk went through them, and the plan is not empty.
C6_Witness ==
    /\ Planned
    /\ plan.sel # <<>>
    /\ plan.pre # <<>>
    /\ \E v \in SchemalessVisits :
          /\ tree[FieldOf(v).serializer].select_related # <<>>
          /\ tree[FieldOf(v).serializer].prefetch_related # <<>>
          /\ \E w \in FieldVisits :
                /\ w.node = FieldOf(v).serializer
                /\ tree[FieldOf(w).serializer].model # NoModel

(***************************************************************************)
(* C7.  Error on bad override.                                             *)
(***************************************************************************)
BadOverride(v) ==
    /\ field_prefetch_source(FieldOf(v)) \notin {None, EmptyStr}
    /\ tree[v.node].model # NoModel
    /\ ~Navigable(tree[v.node], field_prefetch_source(FieldOf(v)))

RaisedFor(v) ==
    /\ plan.err.kind = "ValueError"
    /\ plan.err.source = field_prefetch_source(FieldOf(v))
    /\ plan.err.field = FieldOf(v).source
    /\ plan.err.serializer = v.node
    /\ plan.sel = <<>>
    /\ plan.pre = <<>>

Ops(events) == {events[i].op : i \in DOMAIN events}

\* what the latest to_representation call has done since it was entered
SinceEntry == SubSeq(log, gate.at + 1, Len(log))

HookCalls(node) ==
    Cardinality({i \in DOMAIN log : log[i].op = "other_prefetching" /\ log[i].arg = node})

(***************************************************************************)
(* C1.  Idempotence: when a root serializer with auto_prefetch has         *)
(* rendered an object and is called on the same object again, the second   *)
(* call computes no plan and issues no select_related, prefetch_related or *)
(* prefetch_related_objects.                                               *)
(***************************************************************************)
C1_SecondCallFetchesNothing ==
    (pc # "idle" /\ auto_prefetch /\ ~has_parent /\ <<entry, obj>> \in rendered) =>
        Ops(log) \cap (StoreOpNames \cup {"get_prefetch"}) = {}

(***************************************************************************)
(* C8.  Planning gate: a to_representation call that finds the marker on   *)
(* the instance, or a parent, or auto_prefetch off, or (single-record      *)
(* entry point) a non-empty _prefetched_objects_cache, computes no plan,   *)
(* issues no store call, invokes no hook, leaves the markers as they are   *)
(* and goes straight to rendering; a call that finds none of these plans.  *)
(***************************************************************************)
GateClosed ==
    gate.done \/ has_parent \/ ~auto_prefetch \/ (entry = "single" /\ gate.cached)

C8_PlanningGate ==
    gate.seen =>
      /\ GateClosed =>
            /\ pc \in {"render", "raised", "idle"}
            /\ pc = "raised" => raised = RenderError(entry)
            /\ SinceEntry \in
                 {<<Ev("super.to_representation", <<>>, "")>>,
                  <<Ev("super.to_representation", <<>>, ""), Ev("render", <<>>, "")>>}
            /\ marked = gate.marked
            /\ other_prefetching_methods[entry] = gate.methods
      /\ ~GateClosed =>
            /\ SinceEntry # <<>>
            /\ SinceEntry[1].op = "get_prefetch"

\* A single-record call on an unmarked record with a filled cache, by a root
\* serializer with auto_prefetch, has rendered without planning, in a tree
\* whose plan is not empty.
C8_Witness ==
    /\ pc = "idle"
    /\ gate.seen
    /\ entry = "single"
    /\ gate.cached
    /\ ~gate.done
    /\ auto_prefetch
    /\ ~has_parent
    /\ tree[Root].fields # <<>>
    /\ log = <<Ev("super.to_representation", <<>>, ""), Ev("render", <<>>, "")>>

(***************************************************************************)
(* C9.  Post-fetch hooks run exactly once per pass: when a planning pass   *)
(* has called its hooks, every serializer the walk visited that has an     *)
(* other_prefetching has had it invoked exactly once in the pass.          *)
(***************************************************************************)
C9_HooksOncePerPass ==
    pc = "pre_render" =>
      \A v \in NodeVisits : tree[v.node].has_other => HookCalls(v.node) = 1

(***************************************************************************)
(* C10.  Failure aborts the pass.                                          *)
(***************************************************************************)
PlanFailed == "get_prefetch" \in Ops(log) /\ plan.err.kind # "none"

StoreFailures == {i \in DOMAIN log : log[i].op = "store_raises"}

Aborted ==
    /\ pc \in {"raised", "idle"}
    /\ raised.kind # "none"
    /\ Ops(log) \cap {"mark", "other_prefetching", "call_to_representation",
                      "super.to_representation", "render"} = {}
    /\ \A i \in StoreFailures : i = Len(log)
    /\ marked = gate.marked
    /\ ~work.done

\* C10 as claimed: when get_prefetch raises a ValueError, or a store call of
\* the plan raises, the error leaves to_representation unchanged in kind, no
\* further path is applied, the instance is not marked, no hook is invoked
\* and nothing is rendered.
C10_FailureAbortsUnchanged ==
    /\ PlanFailed => (Aborted /\ raised = plan.err)
    /\ \A i \in StoreFailures : Aborted /\ raised.kind = log[i].arg

\* C10 as amended: the same, except that the single-record entry point
\* turns an AttributeError of the store into a ValueError.
C10_FailureAborts ==
    /\ PlanFailed => (Aborted /\ raised = plan.err)
    /\ \A i \in StoreFailures :
          /\ Aborted
          /\ raised.kind = IF entry = "single" /\ log[i].arg = "AttributeError"
                           THEN "ValueError" ELSE log[i].arg

\* A pass over a materialized collection has applied a path, the store
\* raised on the next one with a further path still to apply, and the error
\* has reached the caller.
C10_Witness ==
    /\ pc = "idle"
    /\ entry = "list"
    /\ Len(log) >= 3
    /\ log[Len(log) - 1].op = "prefetch_related_objects"
    /\ log[Len(log)].op = "store_raises"
    /\ Len(todo) >= 2
    /\ raised.kind = "DatabaseError"

(***************************************************************************)
(* C11.  Missing plural flag: when a queryset is handed to the             *)
(* single-record entry point of a root serializer with auto_prefetch,      *)
(* to_representation raises a ValueError and nothing is rendered: the call *)
(* never reaches super().to_representation.                                *)
(***************************************************************************)
QuerySetAtSingle ==
    /\ entry = "single"
    /\ obj = "queryset"
    /\ auto_prefetch
    /\ ~has_parent
    /\ gate.seen

C11_MissingManyRaises ==
    QuerySetAtSingle =>
        /\ "super.to_representation" \notin Ops(log)
        /\ pc = "idle" => raised.kind = "ValueError"

(***************************************************************************)
(* C12.  Wrong plural flag.                                                *)
(***************************************************************************)
RecordAtList ==
    /\ entry = "list"
    /\ Kind(obj) = "Model"
    /\ auto_prefetch
    /\ ~has_parent
    /\ gate.seen

RejectedBeforeFetch ==
    /\ pc \in {"raised", "idle"}
    /\ raised.kind = "ValueError"
    /\ Ops(log) \cap (StoreOpNames \cup {"store_raises", "mark", "other_prefetching",
                                        "call_to_representation",
                                        "super.to_representation", "render"}) = {}
    /\ marked = gate.marked

\* C12 as claimed: a record handed to the list entry point of a root
\* serializer with auto_prefetch makes to_representation raise a ValueError
\* before any store call, before the marker is set, before any hook and
\* before rendering.
C12_WrongPluralFlag == RecordAtList => RejectedBeforeFetch

\* C12 as amended: the same, for a record that does not carry the marker
\* _serializer_prefetch_done when it is handed in.
C12_WrongPluralFlagUnmarked == (RecordAtList /\ ~gate.done) => RejectedBeforeFetch

\* The list entry point has rejected an unmarked record in a tree whose plan
\* is not empty, and the ValueError is the one of line 366.
C12_Witness ==
    /\ RecordAtList
    /\ ~gate.done
    /\ pc = "idle"
    /\ raised = NotIterable
    /\ plan.err.kind = "none"
    /\ plan.sel \o plan.pre # <<>>

(***************************************************************************)
(* C13.  Missing serializer on a satellite link: when a serializer the     *)
(* walk has visited, at the root or below, declares an                     *)
(* additional_serializers entry without the key serializer, get_prefetch   *)
(* raises a ValueError and returns no plan, and the entry point that       *)
(* called it issues no store call, sets no marker, calls no hook and       *)
(* renders nothing.                                                        *)
(***************************************************************************)
MissingLinkAt(node) ==
    \E link \in Range(get_additional_serializers_data(tree[node])) : ~link.has_serializer

MissingLinkVisited == \E v \in NodeVisits : MissingLinkAt(v.node)

C13_MissingSerializerRaises ==
    MissingLinkVisited =>
        /\ plan.err.kind = "ValueError"
        /\ plan.sel = <<>>
        /\ plan.pre = <<>>
        /\ pc \in {"planned", "raised", "idle"}
        /\ pc # "planned" => raised = plan.err
        /\ Ops(log) = {"get_prefetch"} \/ Ops(log) = {}
        /\ marked = gate.marked

\* A pass has failed on a link without serializer that is declared below the
\* root, on the serializer of a many=True field.
C13_Witness ==
    /\ pc = "idle"
    /\ raised = MissingSerializer
    /\ ~MissingLinkAt(Root)
    /\ \E v \in NodeVisits : v.node # Root /\ MissingLinkAt(v.node)
    /\ Ops(log) = {"get_prefetch"}

(***************************************************************************)
(* C14.  Override resolution: for each of select_related,                  *)
(* prefetch_related, additional_serializers and force_prefetch, the        *)
(* planner uses what the get_* accessor of the serializer returns when the *)
(* serializer has one, else the static attribute when it has one, else     *)
(* nothing; what is declared for one kind has no part in another: the plan *)
(* is the plan of the serializer that declares, as static attributes, what *)
(* each kind resolves to on its own.                                       *)
(***************************************************************************)
Effective(serializer, attr, accessor) ==
    IF accessor \in serializer.attrs THEN serializer[accessor]
    ELSE IF attr \in serializer.attrs THEN serializer[attr]
    ELSE <<>>

StaticOnly(serializer) ==
    Serializer(serializer.model,
               Effective(serializer, "select_related", "get_select_related"),
               Effective(serializer, "prefetch_related", "get_prefetch_related"),
               Effective(serializer, "force_prefetch", "get_force_prefetch"),
               Effective(serializer, "additional_serializers", "get_additional_serializers"),
               serializer.fields, serializer.has_other)

C14_OverrideResolution ==
    pc = "planned" =>
      LET root == tree[Root]
      IN /\ get_select_related_data(root)
              = Effective(root, "select_related", "get_select_related")
         /\ get_prefetch_related_data(root)
              = Effective(root, "prefetch_related", "get_prefetch_related")
         /\ get_force_prefetch_data(root)
              = Effective(root, "force_prefetch", "get_force_prefetch")
         /\ get_additional_serializers_data(root)
              = Effective(root, "additional_serializers", "get_additional_serializers")
         /\ plan = get_prefetch([tree EXCEPT ![Root] = StaticOnly(root)],
                                Root, NoRelation, FALSE)

\* The serializer has select_related and get_select_related, which returns
\* other relations, has force_prefetch as an attribute only and
\* prefetch_related not at all: the plan has the accessor's relation in its
\* eager list and not the attribute's.
C14_Witness ==
    /\ pc = "planned"
    /\ {"select_related", "get_select_related", "force_prefetch"} \subseteq tree[Root].attrs
    /\ tree[Root].attrs \cap {"get_force_prefetch", "prefetch_related",
                              "get_prefetch_related"} = {}
    /\ tree[Root].select_related # tree[Root].get_select_related
    /\ <<"provenance", "continent">> \in Paths(plan.sel)
    /\ tree[Root].select_related[1] \notin Range(plan.sel)

(***************************************************************************)
(* C15.  Write-only exclusion: a nested serializer field with write_only   *)
(* contributes nothing to the walk of the serializer that owns it.  The    *)
(* two lists, the registered hooks and the error of the walk are those of  *)
(* the same serializer without the field: its path and the paths of its    *)
(* subtree are not added, its subtree registers no hook and raises no      *)
(* error, and the other fields are planned as they are without it.         *)
(***************************************************************************)
WriteOnlyFields(node) ==
    {i \in DOMAIN tree[node].fields : tree[node].fields[i].write_only}

WithoutFieldAt(v, i) ==
    get_prefetch([tree EXCEPT ![v.node].fields = RemoveAt(@, i)], v.node, v.cur, v.sp)

SameOutcome(p, q) ==
    /\ p.sel = q.sel
    /\ p.pre = q.pre
    /\ p.hooks = q.hooks
    /\ p.err = q.err

C15_WriteOnlyExclusion ==
    pc = "planned" =>
      \A v \in NodeVisits : \A i \in WriteOnlyFields(v.node) :
          SameOutcome(SubPlan(v), WithoutFieldAt(v, i))

\* The root has a write-only many=True field whose serializer declares a
\* satellite link without serializer, next to a planned sibling: the walk
\* returns, the sibling is in the eager list, and neither the path of the
\* field nor the hook of its serializer is there.
C15_Witness ==
    /\ pc = "planned"
    /\ plan.err.kind = "none"
    /\ \E i \in WriteOnlyFields(Root) :
          /\ tree[Root].fields[i].many
          /\ \E link \in Range(tree[tree[Root].fields[i].serializer].additional_serializers) :
                ~link.has_serializer
          /\ tree[Root].fields[i].source \notin Paths(plan.sel) \cup Paths(plan.pre)
          /\ ~InSeq(tree[Root].fields[i].serializer, plan.hooks)
    /\ <<"provenance">> \in Paths(plan.sel)

(***************************************************************************)
(* C16.  Silent skip: a nested serializer field without prefetch_source    *)
(* whose source is no field of the model of the serializer that owns it,   *)
(* and is not the prefetch_to of an aliased Prefetch declared there, makes *)
(* get_prefetch raise nothing and contributes nothing: the lists, the      *)
(* hooks and the error of the walk of the owning serializer are those of   *)
(* the same serializer without the field.                                  *)
(***************************************************************************)
SkippedVisits ==
    {v \in FieldVisits :
        /\ FieldOf(v).prefetch_source \in {None, EmptyStr}
        /\ tree[v.node].model # NoModel
        /\ ~Navigable(tree[v.node], FieldOf(v).source)
        /\ ~HasAlias(tree[v.node], FieldOf(v).source)}

C16_SilentSkip ==
    pc = "planned" =>
      \A v \in SkippedVisits :
          /\ plan.err # BadPrefetchSource(FieldOf(v).source, FieldOf(v).source, v.node)
          /\ SameOutcome(SubPlan(v), WithoutField(v))

\* The only nested field of the root is read through a property of the
\* model, its CountrySerializer declares select_related and has a nested
\* field of its own: the walk returns, and the plan has neither the source
\* of the field, nor a path below it, nor the hook of its serializer.
C16_Witness ==
    /\ pc = "planned"
    /\ plan.err.kind = "none"
    /\ Len(tree[Root].fields) = 1
    /\ \E v \in SkippedVisits :
          /\ v.node = Root
          /\ tree[FieldOf(v).serializer].select_related # <<>>
          /\ tree[FieldOf(v).serializer].fields # <<>>
          /\ \A p \in Paths(plan.sel) \cup Paths(plan.pre) : ~IsPrefix(FieldOf(v).source, p)
          /\ ~InSeq(FieldOf(v).serializer, plan.hooks)

(***************************************************************************)
(* C17.  Placement rule: for every nested serializer field the walk plans  *)
(* (not write-only, its source a field of the owning model or an alias,    *)
(* its serializer with a Meta.model), the qualified path of the field goes *)
(* to the batch list when the field is many=True, or the walk reached the  *)
(* owning serializer with should_prefetch, or the source is in its         *)
(* force_prefetch, or the source is the prefetch_to of an aliased Prefetch *)
(* declared there; else it goes to the eager list.  Without any            *)
(* declaration, PizzaSerializer with toppings (many) and provenance gives  *)
(* the eager list [provenance] and the batch list [toppings].              *)
(***************************************************************************)
PlannedVisits == {v \in FieldVisits : Plannable(tree, v.node, FieldOf(v))}

BatchPlaced(v) ==
    \/ FieldOf(v).many
    \/ v.sp
    \/ InSeq(RelationOf(FieldOf(v)), get_force_prefetch_data(tree[v.node]))
    \/ HasAlias(tree[v.node], RelationOf(FieldOf(v)))

OwnPath(v) == Qualified(v.cur, RelationOf(FieldOf(v)))

DefaultTree ==
    MakeTree(Serializer("Pizza", <<>>, <<>>, <<>>, <<>>, <<Toppings, Provenance>>, TRUE),
             Leaf("Topping"), Leaf("Country"),
             Serializer(NoModel, <<>>, <<>>, <<>>, <<>>, <<>>, FALSE))

ForceTree ==
    MakeTree(Serializer("Pizza", <<>>, <<>>, <<<<"provenance">>>>, <<>>,
                        <<Toppings, Provenance>>, TRUE),
             Leaf("Topping"), Leaf("Country"),
             Serializer(NoModel, <<>>, <<>>, <<>>, <<>>, <<>>, FALSE))

\* C18 as claimed: get_prefetch returns the eager list [] and the batch
\* list [provenance, toppings], in that order.
C18_Scenario2 ==
    (pc = "planned" /\ tree = ForceTree) =>
        /\ plan.err.kind = "none"
        /\ plan.sel = <<>>
        /\ plan.pre = <<S("provenance"), S("toppings")>>

\* C18 as amended: get_prefetch returns the eager list [] and the batch
\* list [toppings, provenance], the order of the fields of the serializer.
C18_Scenario2FieldOrder ==
    (pc = "planned" /\ tree = ForceTree) =>
        /\ plan.err.kind = "none"
        /\ plan.sel = <<>>
        /\ plan.pre = <<S("toppings"), S("provenance")>>

\* The tree of scenario 2 has been planned, both fields visited.
C18_Witness ==
    /\ pc = "planned"
    /\ tree = ForceTree
    /\ Cardinality(FieldVisits) = 2
    /\ Paths(plan.pre) = {<<"toppings">>, <<"provenance">>}

(***************************************************************************)
(* C19.  Satellite links are always batched: for every                     *)
(* additional_serializers entry of a serializer the walk has visited, the  *)
(* qualified relation of the entry and every path the walk of its          *)
(* serializer returns are in the batch list of the plan get_prefetch       *)
(* returns for the visited serializer, and none of them is in its eager    *)
(* list, whatever fields the serializer has and whether the relation is    *)
(* singular or not.                                                        *)
(***************************************************************************)
LinkRelation(v, link) ==
    IF Truthy(v.cur) THEN join_prefetch(v.cur, link.relation_and_field)
    ELSE link.relation_and_field

LinkPaths(v, link) ==
    LET sub == get_prefetch(tree, link.serializer, LinkRelation(v, link), TRUE)
    IN {LinkRelation(v, link).to} \cup Paths(sub.sel) \cup Paths(sub.pre)

C19_SatelliteLinksBatched ==
    pc = "planned" =>
      \A v \in NodeVisits :
        SubPlan(v).err.kind = "none" =>
          \A link \in Range(get_additional_serializers_data(tree[v.node])) :
              /\ LinkPaths(v, link) \subseteq Paths(SubPlan(v).pre)
              /\ LinkPaths(v, link) \cap Paths(SubPlan(v).sel) = {}

(***************************************************************************)
(* C20.  Alias-based qualification.  (1) When the walk reaches a           *)
(* serializer through a relation fetched by a Prefetch with a to_attr (a   *)
(* field whose source is the to_attr, or a satellite link whose relation   *)
(* is the Prefetch), every path the walk of that serializer returns is     *)
(* qualified with the alias path (prefetch_to) and none with the           *)
(* prefetch_through.  (2) When the source of a planned field is the        *)
(* to_attr of a Prefetch declared at the serializer that owns it, the      *)
(* batch list returned at the root has that Prefetch, its prefetch_through *)
(* and its prefetch_to both qualified with the path by which the walk      *)
(* reached the owning serializer (the first of them when it reached it     *)
(* twice with the same alias path), and no plain string for the alias      *)
(* path; the paths below the field are in the batch list too.              *)
(***************************************************************************)
AliasedFieldVisits ==
    {v \in FieldVisits :
        /\ HasAlias(tree[v.node], RelationOf(FieldOf(v)))
        /\ tree[FieldOf(v).serializer].model # NoModel}

AliasedLinkVisits ==
    {v \in NodeVisits : v.cur.isPrefetch /\ v.cur.to # v.cur.through}

DeclaredFor(v) ==
    {p \in get_all_prefetch_with_to_attr(tree[v.node]) : p.to = RelationOf(FieldOf(v))}

\* the visits of the same field that give it the same qualified path
SameField(v) ==
    {w \in FieldVisits : w.node = v.node /\ w.index = v.index /\ OwnPath(w) = OwnPath(v)}

BelowAlias(v) ==
    LET sub == get_prefetch(tree, FieldOf(v).serializer, Plain(OwnPath(v)), TRUE)
    IN Paths(sub.sel) \cup Paths(sub.pre)

C20_AliasQualification ==
    (pc = "planned" /\ plan.err.kind = "none") =>
      /\ \A v \in AliasedFieldVisits :
            /\ \A q \in BelowAlias(v) :
                  /\ IsPrefix(OwnPath(v), q)
                  /\ \A p \in DeclaredFor(v) : ~IsPrefix(v.cur.through \o p.through, q)
            /\ BelowAlias(v) \subseteq Paths(plan.pre)
            /\ \E e \in Range(plan.pre) : \E w \in SameField(v) : \E p \in DeclaredFor(w) :
                  /\ e.isPrefetch
                  /\ e.to = OwnPath(v)
                  /\ e.through = w.cur.through \o p.through
                  /\ e.qs = p.qs
            /\ Plain(OwnPath(v)) \notin Range(plan.pre) \cup Range(plan.sel)
      /\ \A v \in AliasedLinkVisits :
            \A q \in Paths(SubPlan(v).sel) \cup Paths(SubPlan(v).pre) :
                IsPrefix(v.cur.to, q) /\ ~IsPrefix(v.cur.through, q)

\* The tree of test_prefetch_object_is_passed_with_depth, the
\* CountrySerializer with select_related: the plan has the Prefetch
\* cheese_toppings__origin -> cheese_toppings__origin_eu and the path
\* cheese_toppings__origin_eu__continent in its batch list.
C20_Witness ==
    /\ pc = "planned"
    /\ plan.err.kind = "none"
    /\ \E v \in AliasedFieldVisits :
          /\ v.node = "ToppingSerializer"
          /\ v.cur = Plain(<<"cheese_toppings">>)
          /\ OwnPath(v) = <<"cheese_toppings", "origin_eu">>
    /\ \E e \in Range(plan.pre) :
          /\ e.isPrefetch
          /\ e.through = <<"cheese_toppings", "origin">>
          /\ e.to = <<"cheese_toppings", "origin_eu">>
    /\ <<"cheese_toppings", "origin_eu", "continent">> \in Paths(plan.pre)

(***************************************************************************)
(* C21.  Application to a queryset: when the list entry point plans for a  *)
(* QuerySet, the pass does, in this order: select_related with the whole   *)
(* eager list (if and only if the list is not empty), prefetch_related     *)
(* with the whole batch list (also when it is empty),                      *)
(* queryset_after_prefetch, the marker, the other_prefetching hooks,       *)
(* call_to_representation and the rendering.  A pass that has not failed   *)
(* has done a prefix of this sequence, and all of it when it has returned. *)
(***************************************************************************)
QuerySetPass ==
    /\ entry = "list"
    /\ obj = "queryset"
    /\ log # <<>>
    /\ log[1].op = "get_prefetch"
    /\ plan.err.kind = "none"

HookEvents ==
    [i \in DOMAIN other_prefetching_methods[entry] |->
        Ev("other_prefetching", <<>>, other_prefetching_methods[entry][i])]

QuerySetSequence ==
    <<Ev("get_prefetch", <<>>, "")>>
      \o (IF plan.sel # <<>> THEN <<Ev("select_related", plan.sel, "")>> ELSE <<>>)
      \o <<Ev("prefetch_related", plan.pre, ""),
           Ev("queryset_after_prefetch", <<>>, ""),
           Ev("mark", <<>>, "")>>
      \o HookEvents
      \o <<Ev("call_to_representation", <<>>, ""),
           Ev("super.to_representation", <<>>, ""),
           Ev("render", <<>>, "")>>

C21_QuerySetOrder ==
    QuerySetPass =>
        IF log[Len(log)].op = "store_raises"
        THEN IsPrefix(SubSeq(log, 1, Len(log) - 1), QuerySetSequence)
        ELSE /\ IsPrefix(log, QuerySetSequence)
             /\ pc = "idle" => log = QuerySetSequence

\* A pass over a queryset has returned, with select_related before
\* prefetch_related, both lists of the plan non-empty and hooks registered.
C21_Witness ==
    /\ QuerySetPass
    /\ pc = "idle"
    /\ raised.kind = "none"
    /\ plan.sel # <<>>
    /\ plan.pre # <<>>
    /\ log[2].op = "select_related"
    /\ log[3].op = "prefetch_related"
    /\ HookEvents # <<>>

(***************************************************************************)
(* C22.  Application to a materialized collection: when the list entry     *)
(* point plans for a list or a tuple, it issues one                        *)
(* prefetch_related_objects call per path of the plan, the eager list      *)
(* before the batch list, each in its order, and no relation path is       *)
(* applied twice in the pass.                                              *)
(***************************************************************************)
MaterializedPass ==
    /\ entry = "list"
    /\ obj \in {"list", "tuple"}
    /\ log # <<>>
    /\ log[1].op = "get_prefetch"
    /\ plan.err.kind = "none"

Applied == SelectSeq(log, LAMBDA e : e.op = "prefetch_related_objects")

C22_MaterializedOncePerPath ==
    MaterializedPass =>
        /\ IsPrefix([i \in DOMAIN Applied |-> Applied[i].items[1]], plan.sel \o plan.pre)
        /\ \A i \in DOMAIN Applied : Len(Applied[i].items) = 1
        /\ \A i, j \in DOMAIN Applied :
              i # j => Applied[i].items[1].to # Applied[j].items[1].to
        /\ (pc = "idle" /\ raised.kind = "none") =>
              Len(Applied) = Len(plan.sel \o plan.pre)


(***************************************************************************)
(* C23  No duplicates inside a list: in every plan get_prefetch returns,   *)
(* no two entries of the batch list have the same target (the path of a    *)
(* plain entry, the prefetch_to of a Prefetch) and no path occurs twice in *)
(* the eager list, also when one relation is contributed by a declared     *)
(* list and by a nested field of the same name.                            *)
(***************************************************************************)
NoDuplicates(items) ==
    \A i, j \in DOMAIN items : i # j => items[i].to # items[j].to

C23_NoDuplicatesInList ==
    Planned => (NoDuplicates(plan.sel) /\ NoDuplicates(plan.pre))


(***************************************************************************)
(* C24.  Aliased fields: a nested field that is read, whose nested         *)
(* serializer has a Meta.model, and whose relation is the to_attr path of  *)
(* a Prefetch declared in prefetch_related or in a satellite link of the   *)
(* serializer that owns it, passes the navigability check although the     *)
(* alias is no field of the model: the walk goes on into its serializer    *)
(* with should_prefetch set, every serializer and field below its path is  *)
(* walked with should_prefetch set, its path is a target of the batch list *)
(* its owner returns, and neither its path nor a path below it is in the   *)
(* eager list its owner returns.  It is not the cause of the ValueError    *)
(* for a bad prefetch_source.                                              *)
(***************************************************************************)
AliasedAt(k) ==
    /\ plan.visits[k].kind = "field"
    /\ plan.visits[k] \in AliasedFieldVisits
    /\ ~FieldOf(plan.visits[k]).write_only

C24_AliasedFieldsBatched ==
    pc = "planned" =>
      \A k \in DOMAIN plan.visits :
        AliasedAt(k) =>
          LET v == plan.visits[k]
              sub == SubPlan(v)
          IN /\ k + 1 \in DOMAIN plan.visits
             /\ plan.visits[k + 1].kind = "node"
             /\ plan.visits[k + 1].node = FieldOf(v).serializer
             /\ plan.visits[k + 1].cur.to = OwnPath(v)
             /\ plan.visits[k + 1].sp
             /\ \A j \in DOMAIN plan.visits :
                   IsPrefix(OwnPath(v), plan.visits[j].cur.to) => plan.visits[j].sp
             /\ ~(/\ plan.err.kind = "ValueError"
                  /\ plan.err.serializer = v.node
                  /\ plan.err.source = RelationOf(FieldOf(v)))
             /\ sub.err.kind = "none" =>
                   /\ OwnPath(v) \in Paths(sub.pre)
                   /\ \A q \in Paths(sub.sel) : ~IsPrefix(OwnPath(v), q)

\* The tree of test_prefetch_object_is_passed_with_depth: the field
\* origin_eu of ToppingSerializer, reached by the alias cheese_toppings, is
\* planned in the batch list with the continent below it.
C24_Witness ==
    /\ pc = "planned"
    /\ plan.err.kind = "none"
    /\ \E k \in DOMAIN plan.visits :
          /\ AliasedAt(k)
          /\ plan.visits[k].node = "ToppingSerializer"
          /\ OwnPath(plan.visits[k]) = <<"cheese_toppings", "origin_eu">>
          /\ plan.visits[k + 1].node = "OriginSerializer"
    /\ <<"cheese_toppings", "origin_eu">> \in Paths(plan.pre)
    /\ <<"cheese_toppings", "origin_eu", "continent">> \in Paths(plan.pre)
    /\ \A q \in Paths(plan.sel) : ~IsPrefix(<<"cheese_toppings">>, q)


(***************************************************************************)
(* C25.  Order preservation: the contributions of a serializer, in the     *)
(* order declared relations (select_related, prefetch_related, the         *)
(* select_related names moved by force_prefetch), satellite links in the   *)
(* order of additional_serializers, nested fields in field order, each     *)
(* link and each field with its own path before the paths of its subtree,  *)
(* are a sequence of which each list the walk of that serializer returns   *)
(* is a subsequence: an entry may be dropped as a duplicate, and no two    *)
(* surviving entries change places.                                        *)
(***************************************************************************)
RECURSIVE IsSubsequence(_, _)
IsSubsequence(s, t) ==
    IF s = <<>> THEN TRUE
    ELSE IF t = <<>> THEN FALSE
    ELSE IF Head(s) = Head(t) THEN IsSubsequence(Tail(s), Tail(t))
    ELSE IsSubsequence(s, Tail(t))

Targets(items) == [i \in DOMAIN items |-> items[i].to]

DeclaredTargets(v) ==
    LET serializer == tree[v.node]
        force == get_force_prefetch_data(serializer)
        select == get_select_related_data(serializer)
        declared ==
            SelectSeq(select, LAMBDA s : ~IsForced(s, force))
              \o get_prefetch_related_data(serializer)
              \o SelectSeq(select, LAMBDA s : IsForced(s, force))
    IN [i \in DOMAIN declared |-> Qualified(v.cur, declared[i].to)]

RECURSIVE LinkTargets(_, _)
LinkTargets(v, i) ==
    LET links == get_additional_serializers_data(tree[v.node])
    IN IF i > Len(links) THEN <<>>
       ELSE LET sub == get_prefetch(tree, links[i].serializer,
                                    LinkRelation(v, links[i]), TRUE)
            IN <<LinkRelation(v, links[i]).to>> \o Targets(sub.sel) \o Targets(sub.pre)
                 \o LinkTargets(v, i + 1)

RECURSIVE FieldTargets(_, _)
FieldTargets(v, i) ==
    LET fields == tree[v.node].fields
    IN IF i > Len(fields) THEN <<>>
       ELSE IF ~Plannable(tree, v.node, fields[i]) THEN FieldTargets(v, i + 1)
       ELSE LET own == Qualified(v.cur, RelationOf(fields[i]))
                sub == get_prefetch(tree, fields[i].serializer, Plain(own),
                         future_should_prefetch(v.sp, fields[i],
                             HasAlias(tree[v.node], RelationOf(fields[i]))))
            IN <<own>> \o Targets(sub.sel) \o Targets(sub.pre) \o FieldTargets(v, i + 1)

Contributions(v) == DeclaredTargets(v) \o LinkTargets(v, 1) \o FieldTargets(v, 1)

DeclaredOverride(field) == field.prefetch_source \notin {None, EmptyStr}

OverriddenVisits == {v \in FieldVisits : DeclaredOverride(FieldOf(v))}

C26_OverrideOnPlural ==
    pc = "planned" =>
      \A v \in OverriddenVisits :
        LET field == FieldOf(v)
            owner == tree[v.node]
            sub == SubPlan(v)
        IN IF Navigable(owner, field.prefetch_source)
                \/ HasAlias(owner, field.prefetch_source)
           THEN (sub.err.kind = "none" /\ tree[field.serializer].model # NoModel) =>
                   Qualified(v.cur, field.prefetch_source)
                       \in Paths(sub.sel) \cup Paths(sub.pre)
           ELSE sub.err.kind # "none"


(***************************************************************************)
(* C27.  Serializer without a model: when the owning serializer has no     *)
(* Meta.model, every nested field whose nested serializer has one passes   *)
(* the navigability check and is planned as a batched fetch: its path is   *)
(* in the batch list the owner returns and not in the eager list, for a    *)
(* singular field as for a many=True field.                                *)
(***************************************************************************)
ModellessOwnerVisits ==
    {v \in FieldVisits :
        /\ tree[v.node].model = NoModel
        /\ tree[FieldOf(v).serializer].model # NoModel}

C27_ModellessOwnerBatches ==
    pc = "planned" =>
      \A v \in ModellessOwnerVisits :
        LET sub == SubPlan(v)
        IN sub.err.kind = "none" =>
              /\ OwnPath(v) \in Paths(sub.pre)
              /\ OwnPath(v) \notin Paths(sub.sel)


(***************************************************************************)
(* C28.  Marking never fails: when the list entry point has planned for a  *)
(* materialized collection (a list or a tuple) and has applied the plan,   *)
(* setting _serializer_prefetch_done on the collection raises no error,    *)
(* and the collection handed to the rendering carries the marker; a list   *)
(* is wrapped in List.                                                     *)
(***************************************************************************)
C28_MarkingNeverFails ==
    MaterializedPass =>
      /\ raised # CannotSetAttr
      /\ pc \in {"hooks", "pre_render", "render"} =>
            /\ work.done
            /\ obj = "list" => work.kind = "List"


(***************************************************************************)
(* C29.  No eager join through a batched relation: in the plan             *)
(* get_prefetch returns at the root, no path of the eager list has a       *)
(* target of the batch list as a proper prefix; when force_prefetch moves  *)
(* a singular nested field to the batch list, the relations declared or    *)
(* nested under its serializer are not planned as eager joins through it.  *)
(***************************************************************************)
IsProperPrefix(p, q) == IsPrefix(p, q) /\ Len(p) < Len(q)

C29_NoEagerThroughBatch ==
    Planned =>
      \A e \in Paths(plan.sel) : \A b \in Paths(plan.pre) : ~IsProperPrefix(b, e)


(***************************************************************************)
(* C30.  Re-entrant rendering plans once: in every pass in which an entry  *)
(* point plans, the marker is set before call_to_representation is called, *)
(* the to_representation call made from inside call_to_representation      *)
(* finds the marker on the instance it is handed, evaluates no plan and    *)
(* issues no store call; get_prefetch is evaluated once in the pass, and a *)
(* pass that returns has rendered once, as its last step.                  *)
(***************************************************************************)
PlanningPass == log # <<>> /\ log[1].op = "get_prefetch"

Positions(op) == {i \in DOMAIN log : log[i].op = op}

C30_ReentrantPlansOnce ==
    PlanningPass =>
      /\ Cardinality(Positions("get_prefetch")) = 1
      /\ Cardinality(Positions("call_to_representation")) <= 1
      /\ \A c \in Positions("call_to_representation") :
            /\ \E m \in Positions("mark") : m < c
            /\ \A j \in DOMAIN log :
                  j > c => log[j].op \in {"super.to_representation", "render"}
            /\ pc = "enter" => prefetch_done
      /\ Cardinality(Positions("render")) <= 1
      /\ (pc = "idle" /\ raised.kind = "none") =>
            /\ Cardinality(Positions("render")) = 1
            /\ log[Len(log)].op = "render"

\* A pass over a queryset or over a record that has returned through
\* call_to_representation, with a store call before it and none after.
C30_Witness ==
    /\ PlanningPass
    /\ pc = "idle"
    /\ raised.kind = "none"
    /\ obj \in {"queryset", "model"}
    /\ \E s \in DOMAIN log : \E c \in Positions("call_to_representation") :
          /\ log[s].op \in StoreOpNames
          /\ s < c
          /\ log[c + 1].op = "super.to_representation"
    /\ log[Len(log)].op = "render"

====
